---------------------------- MODULE Spec2Model ----------------------------
(***************************************************************************)
(* NodeRAG ingestion front end.                                            *)
(*                                                                         *)
(*   - DocumentLoader._simple_chunk_text (utils/document_loader.py): the   *)
(*     boundary-aware chunker, modelled statement by statement under       *)
(*     ChunkSpec / FairChunkSpec.                                          *)
(*   - INIT_pipeline (build/pipeline/INIT_pipeline.py): document           *)
(*     discovery and the fingerprint record, modelled under Spec.          *)
(*                                                                         *)
(* Offsets are Python offsets (0-based, half-open); a text is a sequence   *)
(* of one-character strings, so text[i] in Python is txt[i + 1] here.      *)
(***************************************************************************)
EXTENDS Integers, Sequences, FiniteSets, TLC

VARIABLES
    \* ---- _simple_chunk_text ----
    text,        \* argument text
    chunk_size,  \* argument chunk_size
    overlap,     \* argument overlap
    cpc,         \* position in _simple_chunk_text
    start,       \* local start
    end,         \* local end
    chunks,      \* local chunks (its first MaxChunks elements)
    spans        \* history: the <<start, end>> each element of chunks was cut at

chunkVars == <<text, chunk_size, overlap, cpc, start, end, chunks, spans>>

VARIABLES
    \* ---- the file system ----
    main_folder_exists,   \* os.path.exists(config.main_folder)
    input_folder_exists,  \* os.path.exists(config.input_folder)
    listing,              \* os.listdir(config.input_folder), in its order
    hash_dir_exists,      \* the directory of config.document_hash_path exists
    record,               \* the file at config.document_hash_path
    \* ---- configuration and the INIT_pipeline object ----
    docu_type,            \* config.docu_type
    inst,                 \* an INIT_pipeline object exists
    documents_path,       \* self.documents_path
    calls,                \* main() calls made on this object
    \* ---- one call of main() ----
    pc,                   \* position in main()
    caller,               \* who called save_document_hash
    changed,              \* what check_increment returned
    result,               \* what main() returned or raised
    \* ---- history ----
    trace,                \* the methods this call of main() has run, in order
    recordAtCall,         \* record when this call of main() began
    writes,               \* times this call opened the record for writing
    sameListing           \* the input folder has not changed since a main() last returned

fsVars == <<main_folder_exists, input_folder_exists, listing, hash_dir_exists, record>>
objVars == <<docu_type, inst, documents_path, calls>>
callVars == <<pc, caller, changed, result>>
histVars == <<trace, recordAtCall, writes, sameListing>>
pipeVars == <<fsVars, objVars, callVars, histVars>>

VARIABLES
    \* ---- the DocumentLoader object ----
    lpc,            \* "new": not constructed; "ready"; "simple": chunk_document
                    \* is inside its call of _simple_chunk_text
    use_docling,    \* self.use_docling
    op,             \* the method called last
    \* ---- the last call of load_document ----
    ld_path,        \* argument file_path
    ld_convert,     \* self.converter.convert: "none" (not called), "ok", "raised"
    ld_loader,      \* the built-in loader called, or "none"
    ld_result,      \* what load_document returned or raised
    \* ---- the last call of chunk_document ----
    cd_text,        \* argument text
    cd_chunk_size,  \* argument chunk_size
    cd_overlap,     \* argument overlap
    cd_sem,         \* the semantic chunking: "none" (not tried), "raised",
                    \* "sections", "paragraphs", "empty"
    cd_returned,    \* chunk_document has returned
    cd_result       \* what it returned

loadVars == <<ld_path, ld_convert, ld_loader, ld_result>>
cdVars == <<cd_text, cd_chunk_size, cd_overlap, cd_sem, cd_returned, cd_result>>
loaderVars == <<lpc, use_docling, op, loadVars, cdVars>>

vars == <<chunkVars, pipeVars, loaderVars>>

-----------------------------------------------------------------------------
(* Bounds *)

MaxLen == 4
MaxChunkSize == 3
MaxOverlap == 2

\* A run that makes progress emits at most Len(text) chunks, so a run that
\* emits more never ends; chunks keeps what was emitted up to this length.
MaxChunks == MaxLen + 1

\* entries of the input folder, and main() calls on one object
MaxListing == 2
MaxCalls == 2

\* length of the texts handed to chunk_document (LoaderSpec)
MaxDocLen == 2

\* entries of the input folder where the folder does not change (DiscoverSpec)
MaxWide == 3

-----------------------------------------------------------------------------
(* Helpers *)

Max(a, b) == IF a >= b THEN a ELSE b
Min(a, b) == IF a <= b THEN a ELSE b

\* Python text[lo:hi] for 0 <= lo <= hi <= len(text)
Slice(txt, lo, hi) == SubSeq(txt, lo + 1, hi)

Chars == {"a", "\n", ".", "!", "?", " "}

Texts == UNION {[1..n -> Chars] : n \in 0..MaxLen}

-----------------------------------------------------------------------------
(* Strings of the pipeline: sequences of one-character strings *)

S_txt == <<"t", "x", "t">>
S_md == <<"m", "d">>
S_pdf == <<"p", "d", "f">>
S_csv == <<"c", "s", "v">>
S_xlsx == <<"x", "l", "s", "x">>
S_xls == <<"x", "l", "s">>
S_docx == <<"d", "o", "c", "x">>
S_pptx == <<"p", "p", "t", "x">>
S_mixed == <<"m", "i", "x", "e", "d">>
S_excel == <<"e", "x", "c", "e", "l">>
S_log == <<"l", "o", "g">>

Dot(s) == <<".">> \o s

\* the names the input folder may hold
Files == {
    <<"a">> \o Dot(S_txt),
    <<"b">> \o Dot(S_md),
    <<"D">> \o Dot(<<"T", "X", "T">>) }

\* the values of config.docu_type
DocuTypes == {S_mixed, S_txt, S_log}

\* config.input_folder
InputFolder == <<"i", "n">>

\* what os.listdir may return: no name twice, in any order
Listings ==
    {l \in UNION {[1..n -> Files] : n \in 0..MaxListing} :
        \A i, j \in 1..Len(l) : i # j => l[i] # l[j]}

\* str.lower() on one character
LowerChar(c) ==
    CASE c = "T" -> "t"
      [] c = "X" -> "x"
      [] c = "D" -> "d"
      [] c = "L" -> "l"
      [] c = "O" -> "o"
      [] c = "G" -> "g"
      [] OTHER -> c

lower(s) == [i \in 1..Len(s) |-> LowerChar(s[i])]

\* os.path.splitext(name)[1]: from the last dot on, unless only dots precede it
splitext1(name) ==
    LET dots == {i \in 1..Len(name) : name[i] = "."}
    IN  IF dots = {} THEN <<>>
        ELSE LET d == CHOOSE i \in dots : \A j \in dots : j <= i
             IN  IF \A k \in 1..(d - 1) : name[k] = "." THEN <<>>
                 ELSE SubSeq(name, d, Len(name))

\* os.path.join(folder, name)
path_join(folder, name) == folder \o <<"/">> \o name

\* ''.join(paths)
RECURSIVE join(_)
join(paths) == IF paths = <<>> THEN <<>> ELSE Head(paths) \o join(Tail(paths))

\* storage.genid(text, "sha256"): a digest, taken to be collision free
genid(s) == <<"sha256", s>>

Range(s) == {s[i] : i \in 1..Len(s)}

\* the digest taken over the paths as a set, their order lost
document_path_hash_Unordered(paths) == genid(Range(paths))

\* INIT_pipeline.document_path_hash
document_path_hash(paths) == genid(join(paths))

\* load_files: the supported_extensions table
supported_extensions ==
    [t \in {S_mixed, S_txt, S_md, S_pdf, S_csv, S_excel, S_docx, S_pptx} |->
        CASE t = S_mixed -> <<Dot(S_txt), Dot(S_md), Dot(S_pdf), Dot(S_csv),
                              Dot(S_xlsx), Dot(S_xls), Dot(S_docx), Dot(S_pptx)>>
          [] t = S_txt -> <<Dot(S_txt)>>
          [] t = S_md -> <<Dot(S_md)>>
          [] t = S_pdf -> <<Dot(S_pdf)>>
          [] t = S_csv -> <<Dot(S_csv)>>
          [] t = S_excel -> <<Dot(S_xlsx), Dot(S_xls)>>
          [] t = S_docx -> <<Dot(S_docx)>>
          [] t = S_pptx -> <<Dot(S_pptx)>>]

\* load_files: the extensions to accept for a docu_type
extensions(t) ==
    IF t \in DOMAIN supported_extensions THEN supported_extensions[t]
    ELSE <<Dot(t)>>

InSeq(x, s) == \E i \in 1..Len(s) : s[i] = x

\* load_files: the paths the for loop appends, in the order of the listing
RECURSIVE matching(_, _)
matching(l, exts) ==
    IF l = <<>> THEN <<>>
    ELSE (IF InSeq(lower(splitext1(Head(l))), exts)
          THEN <<path_join(InputFolder, Head(l))>>
          ELSE <<>>) \o matching(Tail(l), exts)

\* the record file: absent, opened for writing and not yet written through,
\* or the JSON object json.dump wrote
NoFile == [state |-> "absent"]
Truncated == [state |-> "truncated"]

\* json.dump of the paths under a digest that is not theirs
Written_StaleHash(paths) ==
    [state |-> "written",
     document_path_hash |-> genid(<<>>),
     document_path |-> paths]

Written(paths) ==
    [state |-> "written",
     document_path_hash |-> document_path_hash(paths),
     document_path |-> paths]

\* check_increment with its two returns exchanged
hash_differs_Inverted(previous_hash, current_hash) == previous_hash = current_hash

\* check_increment that never reports a change
hash_differs_Never(previous_hash, current_hash) == FALSE

\* check_increment: previous_hash == self.document_path_hash gives False, else True
hash_differs(previous_hash, current_hash) == ~(previous_hash = current_hash)

\* check_folder_structure that looks at the main folder only
folder_missing_MainOnly(main_exists, input_exists) == ~main_exists

\* check_folder_structure: one of its two os.path.exists tests fails
folder_missing(main_exists, input_exists) == ~main_exists \/ ~input_exists

-----------------------------------------------------------------------------
(* INIT_pipeline *)

\* no result of load_document yet
NoResult == [kind |-> "none", by |-> "none", cause |-> "none"]

LoaderQuiet ==
    /\ lpc = "new"
    /\ use_docling = FALSE
    /\ op = "none"
    /\ ld_path = <<>>
    /\ ld_convert = "none"
    /\ ld_loader = "none"
    /\ ld_result = NoResult
    /\ cd_text = <<>>
    /\ cd_chunk_size = 1
    /\ cd_overlap = 0
    /\ cd_sem = "none"
    /\ cd_returned = FALSE
    /\ cd_result = <<>>

PipeQuiet ==
    /\ main_folder_exists = TRUE
    /\ input_folder_exists = TRUE
    /\ listing = <<>>
    /\ hash_dir_exists = FALSE
    /\ record = NoFile
    /\ docu_type = S_mixed
    /\ inst = FALSE
    /\ documents_path = <<>>
    /\ calls = 0
    /\ pc = "idle"
    /\ caller = "none"
    /\ changed = "none"
    /\ result = "none"
    /\ trace = <<>>
    /\ recordAtCall = NoFile
    /\ writes = 0
    /\ sameListing = FALSE

ChunkQuiet ==
    /\ text = <<>>
    /\ chunk_size = 1
    /\ overlap = 0
    /\ cpc = "call"
    /\ start = 0
    /\ end = 0
    /\ chunks = <<>>
    /\ spans = <<>>

Init ==
    /\ ChunkQuiet
    /\ LoaderQuiet
    /\ main_folder_exists = TRUE
    /\ input_folder_exists = TRUE
    /\ listing \in Listings
    /\ hash_dir_exists = FALSE
    /\ record = NoFile
    /\ docu_type \in DocuTypes
    /\ inst = FALSE
    /\ documents_path = <<>>
    /\ calls = 0
    /\ pc = "idle"
    /\ caller = "none"
    /\ changed = "none"
    /\ result = "none"
    /\ trace = <<>>
    /\ recordAtCall = NoFile
    /\ writes = 0
    /\ sameListing = FALSE

\* INIT_pipeline(config)
Construct ==
    /\ pc = "idle"
    /\ inst' = TRUE
    /\ documents_path' = <<>>
    /\ calls' = 0
    /\ UNCHANGED <<docu_type, fsVars, callVars, histVars, chunkVars, loaderVars>>

\* main() is called on the object
CallMain ==
    /\ pc = "idle"
    /\ inst
    /\ calls < MaxCalls
    /\ calls' = calls + 1
    /\ pc' = "check_folder_structure"
    /\ caller' = "none"
    /\ changed' = "none"
    /\ result' = "none"
    /\ trace' = <<>>
    /\ recordAtCall' = record
    /\ writes' = 0
    /\ UNCHANGED <<docu_type, inst, documents_path, sameListing, fsVars, chunkVars, loaderVars>>

check_folder_structure ==
    /\ pc = "check_folder_structure"
    /\ trace' = Append(trace, "check_folder_structure")
    /\ IF folder_missing(main_folder_exists, input_folder_exists)
       THEN /\ pc' = "raised"
            /\ result' = "ValueError: folder does not exist"
       ELSE /\ pc' = "load_files"
            /\ UNCHANGED result
    /\ UNCHANGED <<caller, changed, recordAtCall, writes, sameListing,
                   objVars, fsVars, chunkVars, loaderVars>>

load_files ==
    /\ pc = "load_files"
    /\ trace' = Append(trace, "load_files")
    /\ documents_path' = documents_path \o matching(listing, extensions(docu_type))
    /\ IF Len(documents_path') = 0
       THEN /\ pc' = "raised"
            /\ result' = "ValueError: no files found"
       ELSE /\ pc' = "check_increment"
            /\ UNCHANGED result
    /\ UNCHANGED <<docu_type, inst, calls, caller, changed, recordAtCall, writes,
                   sameListing, fsVars, chunkVars, loaderVars>>

\* check_increment up to its return, or up to its call of save_document_hash
check_increment ==
    /\ pc = "check_increment"
    /\ trace' = Append(trace, "check_increment")
    /\ CASE record.state = "absent" ->
              /\ pc' = "save_open"
              /\ caller' = "check_increment"
              /\ UNCHANGED <<changed, result>>
         [] record.state = "truncated" ->
              /\ pc' = "raised"
              /\ result' = "JSONDecodeError"
              /\ UNCHANGED <<caller, changed>>
         [] record.state = "written" ->
              /\ changed' = hash_differs(record.document_path_hash,
                                      document_path_hash(documents_path))
              /\ pc' = "main_if"
              /\ UNCHANGED <<caller, result>>
    /\ UNCHANGED <<recordAtCall, writes, sameListing, objVars, fsVars, chunkVars, loaderVars>>

\* main() returning True without the call of save_document_hash
main_if_NoPersist ==
    /\ pc = "main_if"
    /\ pc' = "returned"
    /\ result' = (changed = TRUE)
    /\ UNCHANGED <<caller, changed, histVars, objVars, fsVars, chunkVars, loaderVars>>

\* main(): if self.check_increment(): ... else: return False
main_if ==
    /\ pc = "main_if"
    /\ IF changed = TRUE
       THEN /\ pc' = "save_open"
            /\ caller' = "main"
            /\ UNCHANGED result
       ELSE /\ pc' = "returned"
            /\ result' = FALSE
            /\ UNCHANGED caller
    /\ UNCHANGED <<changed, histVars, objVars, fsVars, chunkVars, loaderVars>>

\* save_document_hash: os.makedirs(..., exist_ok=True); open(path, 'w')
save_open ==
    /\ pc = "save_open"
    /\ trace' = Append(trace, "save_document_hash")
    /\ hash_dir_exists' = TRUE
    /\ record' = Truncated
    /\ writes' = writes + 1
    /\ pc' = "save_dump"
    /\ UNCHANGED <<main_folder_exists, input_folder_exists, listing, caller, changed,
                   result, recordAtCall, sameListing, objVars, chunkVars, loaderVars>>

\* save_document_hash: json.dump(...) and the close of the file; then the
\* return of the caller (check_increment: return False; main: return True)
save_dump ==
    /\ pc = "save_dump"
    /\ record' = Written(documents_path)
    /\ IF caller = "check_increment"
       THEN /\ changed' = FALSE
            /\ pc' = "main_if"
            /\ UNCHANGED result
       ELSE /\ pc' = "returned"
            /\ result' = TRUE
            /\ UNCHANGED changed
    /\ UNCHANGED <<main_folder_exists, input_folder_exists, listing, hash_dir_exists,
                   caller, histVars, objVars, chunkVars, loaderVars>>

\* the caller of main() takes the value or the exception
Finish ==
    /\ pc \in {"returned", "raised"}
    /\ pc' = "idle"
    /\ sameListing' = IF pc = "returned" THEN TRUE ELSE sameListing
    /\ caller' = "none"
    /\ changed' = "none"
    /\ result' = "none"
    /\ trace' = <<>>
    /\ recordAtCall' = NoFile
    /\ writes' = 0
    /\ UNCHANGED <<objVars, fsVars, chunkVars, loaderVars>>

\* the process dies inside main(): the object is gone, the files stay
Crash ==
    /\ pc \notin {"idle", "returned", "raised"}
    /\ pc' = "idle"
    /\ inst' = FALSE
    /\ documents_path' = <<>>
    /\ calls' = 0
    /\ caller' = "none"
    /\ changed' = "none"
    /\ result' = "none"
    /\ trace' = <<>>
    /\ recordAtCall' = NoFile
    /\ writes' = 0
    /\ UNCHANGED <<docu_type, sameListing, fsVars, chunkVars, loaderVars>>

\* between runs the input folder changes
ChangeListing ==
    /\ pc = "idle"
    /\ input_folder_exists
    /\ \E l \in Listings : listing' = l
    /\ listing' # listing
    /\ sameListing' = FALSE
    /\ UNCHANGED <<main_folder_exists, input_folder_exists, hash_dir_exists, record,
                   trace, recordAtCall, writes, objVars, callVars, chunkVars, loaderVars>>

\* between runs a folder is removed or put back
ChangeFolders ==
    /\ pc = "idle"
    /\ \E m, i \in BOOLEAN :
          /\ i => m
          /\ main_folder_exists' = m
          /\ input_folder_exists' = i
          /\ listing' = IF i THEN listing ELSE <<>>
    /\ <<main_folder_exists', input_folder_exists'>> # <<main_folder_exists, input_folder_exists>>
    /\ sameListing' = FALSE
    /\ UNCHANGED <<hash_dir_exists, record, trace, recordAtCall, writes,
                   objVars, callVars, chunkVars, loaderVars>>

\* between runs the operator deletes the record
DeleteRecord ==
    /\ pc = "idle"
    /\ record # NoFile
    /\ record' = NoFile
    /\ UNCHANGED <<main_folder_exists, input_folder_exists, listing, hash_dir_exists,
                   objVars, callVars, histVars, chunkVars, loaderVars>>

Next ==
    \/ Construct
    \/ CallMain
    \/ check_folder_structure
    \/ load_files
    \/ check_increment
    \/ main_if
    \/ save_open
    \/ save_dump
    \/ Finish
    \/ Crash
    \/ ChangeListing
    \/ ChangeFolders
    \/ DeleteRecord

Spec == Init /\ [][Next]_vars

-----------------------------------------------------------------------------
(* Properties of INIT_pipeline *)

\* the fingerprint of the document set the object holds after load_files
CurrentHash == document_path_hash(documents_path)

\* check_increment has returned in this call of main()
CheckIncrementReturned == pc \in {"main_if", "returned"} \/ (pc \in {"save_open", "save_dump"} /\ caller = "main")

\* C3: with no record at the record path, check_increment writes a record
\* that holds the current fingerprint and the current document set and
\* returns False; main() then returns False and the record is on disk.
C3_FirstRunBaseline ==
    (recordAtCall = NoFile /\ CheckIncrementReturned) =>
        /\ changed = FALSE
        /\ record.state = "written"
        /\ record.document_path_hash = CurrentHash
        /\ record.document_path = documents_path
        /\ writes = 1
        /\ (pc = "returned" => result = FALSE)

C3_Witness ==
    /\ pc = "returned"
    /\ recordAtCall = NoFile
    /\ result = FALSE
    /\ record.state = "written"
    /\ Len(record.document_path) > 0

\* C4: with a record present, check_increment returns True exactly when the
\* stored fingerprint differs from the fingerprint of the current document
\* set, and it leaves the record as it was; when the two are equal neither
\* check_increment nor main() writes the record.
C4_CompareOnly ==
    (recordAtCall.state = "written" /\ CheckIncrementReturned) =>
        /\ changed = (recordAtCall.document_path_hash # CurrentHash)
        /\ (pc = "main_if" => (record = recordAtCall /\ writes = 0))
        /\ (recordAtCall.document_path_hash = CurrentHash =>
                (record = recordAtCall /\ writes = 0))

C4_Witness ==
    /\ pc = "returned"
    /\ recordAtCall.state = "written"
    /\ recordAtCall.document_path_hash = CurrentHash
    /\ changed = FALSE
    /\ record = recordAtCall

\* C5: main() runs check_folder_structure, load_files, check_increment in
\* that order; it returns True exactly when a record existed when it began
\* and its fingerprint differs from that of the document set held after
\* load_files, and then save_document_hash has run before the return; every
\* other return is False.
C5_RunOrder ==
    pc = "returned" =>
        /\ Len(trace) >= 3
        /\ SubSeq(trace, 1, 3) = <<"check_folder_structure", "load_files", "check_increment">>
        /\ result \in BOOLEAN
        /\ result = (recordAtCall.state = "written"
                        /\ recordAtCall.document_path_hash # CurrentHash)
        /\ (result = TRUE =>
                /\ trace = <<"check_folder_structure", "load_files", "check_increment",
                             "save_document_hash">>
                /\ record = Written(documents_path))

C5_Witness ==
    /\ pc = "returned"
    /\ result = TRUE
    /\ recordAtCall.state = "written"

\* C6: a main() that meets the listing the last returned main() met, with the
\* record that run left still in place, returns False and leaves the record
\* as it is, on a new INIT_pipeline object as well as on the same one.
C6_Idempotent ==
    (pc = "returned" /\ sameListing /\ recordAtCall.state = "written") =>
        /\ result = FALSE
        /\ record = recordAtCall
        /\ writes = 0

\* C7: whenever no main() is running, also after a crash inside
\* save_document_hash, the record file is absent or a complete record, and
\* no later run fails to parse it.
C7_AtomicPersist ==
    /\ (pc = "idle" => record.state \in {"absent", "written"})
    /\ ~(pc = "raised" /\ result = "JSONDecodeError")

-----------------------------------------------------------------------------
(* DocumentLoader._simple_chunk_text *)

\* the separator list of the for loop, in its order
Separators == << <<"\n", "\n">>, <<"\n">>, <<".", " ">>, <<"!", " ">>, <<"?", " ">> >>

\* text[pos:pos+len(sep)] == sep
MatchAt(txt, sep, pos) ==
    /\ pos >= 0
    /\ pos + Len(sep) <= Len(txt)
    /\ \A k \in 1..Len(sep) : txt[pos + k] = sep[k]

RECURSIVE rfindFrom(_, _, _, _)
rfindFrom(txt, sep, lo, pos) ==
    IF pos < lo THEN -1
    ELSE IF MatchAt(txt, sep, pos) THEN pos
    ELSE rfindFrom(txt, sep, lo, pos - 1)

RECURSIVE findFrom(_, _, _, _)
findFrom(txt, sep, hi, pos) ==
    IF pos + Len(sep) > hi THEN -1
    ELSE IF MatchAt(txt, sep, pos) THEN pos
    ELSE findFrom(txt, sep, hi, pos + 1)

\* rfind taken for find: the lowest such pos
rfind_Leftmost(txt, sep, lo, hi) == findFrom(txt, sep, hi, lo)

\* str.rfind(sep, lo, hi): the highest pos with lo <= pos, pos + len(sep) <= hi
\* and text[pos:pos+len(sep)] == sep, or -1
rfind(txt, sep, lo, hi) == rfindFrom(txt, sep, lo, hi - Len(sep))

\* the loop with end set to pos, the separator left for the next chunk
RECURSIVE BreakFrom_AtSeparator(_, _, _, _)
BreakFrom_AtSeparator(txt, s, e, i) ==
    IF i > Len(Separators) THEN e
    ELSE LET pos == rfind(txt, Separators[i], s, e)
         IN  IF pos # -1 THEN pos
             ELSE BreakFrom_AtSeparator(txt, s, e, i + 1)

\* the for loop over the separators, from separator i on: end after the loop
RECURSIVE BreakFrom(_, _, _, _)
BreakFrom(txt, s, e, i) ==
    IF i > Len(Separators) THEN e
    ELSE LET pos == rfind(txt, Separators[i], s, e)
         IN  IF pos # -1 THEN pos + Len(Separators[i])
             ELSE BreakFrom(txt, s, e, i + 1)

\* end as computed by one pass of the while body
WindowEnd(txt, s, size) ==
    LET e == Min(s + size, Len(txt))
    IN  IF e < Len(txt) THEN BreakFrom(txt, s, e, 1) ELSE e

\* start = max(start, end - overlap)
NextStart(s, e, ov) == Max(s, e - ov)

ChunkInit ==
    /\ PipeQuiet
    /\ LoaderQuiet
    /\ text \in Texts
    /\ chunk_size \in 1..MaxChunkSize
    /\ overlap \in 0..MaxOverlap
    /\ cpc = "call"
    /\ start = 0
    /\ end = 0
    /\ chunks = <<>>
    /\ spans = <<>>

\* chunks = []; start = 0; text_len = len(text)
ChunkEnter ==
    /\ cpc = "call"
    /\ chunks' = <<>>
    /\ spans' = <<>>
    /\ start' = 0
    /\ cpc' = "while"
    /\ UNCHANGED <<text, chunk_size, overlap, end>>
    /\ UNCHANGED <<pipeVars, loaderVars>>

\* while start < text_len: compute end, chunks.append(text[start:end])
ChunkEmit ==
    /\ cpc = "while"
    /\ start < Len(text)
    /\ LET e == WindowEnd(text, start, chunk_size)
       IN  /\ end' = e
           /\ IF Len(chunks) < MaxChunks
              THEN /\ chunks' = Append(chunks, Slice(text, start, e))
                   /\ spans' = Append(spans, <<start, e>>)
              ELSE UNCHANGED <<chunks, spans>>
    /\ cpc' = "advance"
    /\ UNCHANGED <<text, chunk_size, overlap, start>>
    /\ UNCHANGED <<pipeVars, loaderVars>>

\* start = max(start, end - overlap)
ChunkAdvance ==
    /\ cpc = "advance"
    /\ start' = NextStart(start, end, overlap)
    /\ cpc' = "while"
    /\ UNCHANGED <<text, chunk_size, overlap, end, chunks, spans>>
    /\ UNCHANGED <<pipeVars, loaderVars>>

\* the while condition fails: return chunks
ChunkReturn ==
    /\ cpc = "while"
    /\ ~(start < Len(text))
    /\ cpc' = "done"
    /\ UNCHANGED <<text, chunk_size, overlap, start, end, chunks, spans>>
    /\ UNCHANGED <<pipeVars, loaderVars>>

ChunkNext ==
    \/ ChunkEnter
    \/ ChunkEmit
    \/ ChunkAdvance
    \/ ChunkReturn

ChunkSpec == ChunkInit /\ [][ChunkNext]_vars

\* The loop runs on one thread with nothing to wait for: a step that can be
\* taken is taken.
FairChunkSpec == ChunkSpec /\ WF_vars(ChunkNext)

-----------------------------------------------------------------------------
(* Properties of _simple_chunk_text *)

CeilDiv(n, d) == (n + d - 1) \div d

\* C1: every pass of the loop moves start forward: the advance step
\* start = max(start, end - overlap) leaves start strictly greater than it
\* was, also when end - overlap <= start (so the loop ends with
\* start >= len(text)).
C1_ForwardProgress == [][cpc = "advance" => start' > start]_vars

\* C2: a non-empty text shorter than chunk_size is chunked into exactly one
\* chunk, the whole text, for every overlap >= 0: no second chunk is ever
\* emitted and the returned list is [text].
C2_OneChunk ==
    (Len(text) > 0 /\ Len(text) < chunk_size) =>
        /\ Len(chunks) <= 1
        /\ (cpc = "done" => chunks = <<text>>)

\* the chunks joined after dropping from each chunk but the first the prefix
\* it shares with its predecessor (of length e_(i-1) - s_i)
RECURSIVE JoinDedup(_, _, _)
JoinDedup(cs, sp, i) ==
    IF i > Len(cs) THEN <<>>
    ELSE (IF i = 1 THEN cs[1]
          ELSE SubSeq(cs[i], (sp[i - 1][2] - sp[i][1]) + 1, Len(cs[i])))
         \o JoinDedup(cs, sp, i + 1)

C8_Shape ==
    /\ Len(spans) = Len(chunks)
    /\ \A i \in 1..Len(chunks) : chunks[i] = Slice(text, spans[i][1], spans[i][2])
    /\ Len(spans) > 0 => spans[1][1] = 0
    /\ \A i \in 1..(Len(spans) - 1) : spans[i + 1][1] <= spans[i][2]
    /\ Len(text) > 0 => (Len(spans) > 0 /\ spans[Len(spans)][2] = Len(text))

\* C8: for every text, chunk_size >= 1 and overlap >= 0 the chunker returns
\* chunks text[s_i:e_i] with s_0 = 0, s_(i+1) <= e_i and last e_i = len(text),
\* and joining them with the overlapping prefixes removed gives the text.
C8_RoundTrip ==
    <>(cpc = "done" /\ C8_Shape /\ JoinDedup(chunks, spans, 1) = text)

\* C9: with overlap >= chunk_size the chunker emits ceil(len(text)/chunk_size)
\* chunks, chunk i starting at i * chunk_size, consecutive chunks sharing
\* nothing.
C9_Saturating ==
    overlap >= chunk_size =>
        /\ Len(chunks) <= CeilDiv(Len(text), chunk_size)
        /\ \A i \in 1..Len(spans) : spans[i][1] = (i - 1) * chunk_size
        /\ \A i \in 1..(Len(spans) - 1) : spans[i + 1][1] >= spans[i][2]
        /\ (cpc = "done" => Len(chunks) = CeilDiv(Len(text), chunk_size))

\* offsets in [s, w) at which sep lies wholly inside [s, w)
Occurrences(sep, s, w) == {p \in s..(w - Len(sep)) : MatchAt(text, sep, p)}

SetMax(S) == CHOOSE x \in S : \A y \in S : y <= x

\* where the window that starts at s has to end
C10_Expected(s) ==
    LET w == s + chunk_size
        present == {i \in 1..Len(Separators) : Occurrences(Separators[i], s, w) # {}}
    IN  IF ~(w < Len(text)) THEN Len(text)
        ELSE IF present = {} THEN w
        ELSE LET i == CHOOSE j \in present : \A k \in present : j <= k
             IN  SetMax(Occurrences(Separators[i], s, w)) + Len(Separators[i])

\* C10: a non-final window ends just past the rightmost occurrence of the
\* first separator, in the order paragraph break, newline, ". ", "! ", "? ",
\* that occurs in the window at all, whatever lower separators lie further
\* right, and at start + chunk_size when none occurs; the final window ends
\* at len(text).
C10_SeparatorPriority == cpc = "advance" => end = C10_Expected(start)

\* a non-final window cut at a higher separator although a lower one ends
\* further right
C10_Witness ==
    /\ cpc = "advance"
    /\ start + chunk_size < Len(text)
    /\ end < start + chunk_size
    /\ \E i, j \in 1..Len(Separators) :
          /\ i < j
          /\ Occurrences(Separators[i], start, start + chunk_size) # {}
          /\ \E p \in Occurrences(Separators[j], start, start + chunk_size) :
                p + Len(Separators[j]) > end

\* C19: every chunk emitted is a non-empty piece text[s:e] of the text, no
\* longer than chunk_size; the starts never go back; the empty text gives no
\* chunk at all. This holds after every pass of the loop.
C19_ChunkInvariant ==
    /\ Len(spans) = Len(chunks)
    /\ \A i \in 1..Len(chunks) :
          /\ 0 <= spans[i][1]
          /\ spans[i][1] < spans[i][2]
          /\ spans[i][2] <= Len(text)
          /\ spans[i][2] - spans[i][1] <= chunk_size
          /\ chunks[i] = Slice(text, spans[i][1], spans[i][2])
          /\ Len(chunks[i]) >= 1
    /\ \A i \in 1..(Len(spans) - 1) : spans[i][1] <= spans[i + 1][1]
    /\ (text = <<>> => chunks = <<>>)
    /\ (cpc = "advance" => (start < end /\ end - start <= chunk_size))

\* a second chunk that overlaps a first one cut short at a separator
C19_Witness ==
    /\ Len(chunks) >= 2
    /\ spans[1][2] < chunk_size
    /\ spans[1][2] < Len(text)
    /\ spans[2][1] < spans[1][2]
    /\ spans[1][1] < spans[2][1]

-----------------------------------------------------------------------------
(* Further properties of INIT_pipeline *)

\* C17: the fingerprint depends on the ordered sequence of paths and on
\* nothing else: against a record left by any earlier detector,
\* check_increment reports a change exactly when the stored sequence and the
\* current one differ as sequences, so equal sequences give equal
\* fingerprints and the same paths in another order count as a change.
C17_OrderSensitive ==
    (recordAtCall.state = "written" /\ CheckIncrementReturned) =>
        /\ changed = (recordAtCall.document_path # documents_path)
        /\ (recordAtCall.document_path = documents_path
                => recordAtCall.document_path_hash = CurrentHash)

\* the same paths met in another order, reported as a change
C17_Witness ==
    /\ pc = "main_if"
    /\ calls = 1
    /\ recordAtCall.state = "written"
    /\ Len(recordAtCall.document_path) = Len(documents_path)
    /\ Range(recordAtCall.document_path) = Range(documents_path)
    /\ recordAtCall.document_path # documents_path
    /\ changed = TRUE

\* C18: a record on disk always carries the fingerprint of its own path
\* list, and when main() returns (True or False) the record exists and holds
\* the fingerprint and the path list of the document set of that run.
C18_RecordConsistent ==
    /\ (record.state = "written" =>
            record.document_path_hash = document_path_hash(record.document_path))
    /\ (pc = "returned" =>
            /\ record.state = "written"
            /\ record.document_path_hash = CurrentHash
            /\ record.document_path = documents_path)

\* a run that found the record stale and returns with it rewritten
C18_Witness ==
    /\ pc = "returned"
    /\ result = TRUE
    /\ recordAtCall.state = "written"
    /\ record # recordAtCall
    /\ record.document_path = documents_path

\* no entry of the listing has an accepted extension
NoEntryMatches ==
    \A i \in 1..Len(listing) :
        ~InSeq(lower(splitext1(listing[i])), extensions(docu_type))

\* load_files has run in this call of main()
LoadFilesDone == Len(trace) >= 2 /\ trace[2] = "load_files"

\* load_files has raised its error
NoFilesRaised == pc = "raised" /\ result = "ValueError: no files found"

\* C12: load_files raises the no-files error exactly when no entry of the
\* listing matches the extension policy; when it does not raise the document
\* set is non-empty; when it raises, main() passes the error on and the
\* record is neither read nor written.
C12_NoDocuments ==
    LoadFilesDone =>
        /\ NoFilesRaised = NoEntryMatches
        /\ (~NoFilesRaised => Len(documents_path) > 0)
        /\ (NoFilesRaised =>
                /\ trace = <<"check_folder_structure", "load_files">>
                /\ record = recordAtCall
                /\ writes = 0)

\* C13: when the main folder or the input folder is missing,
\* check_folder_structure raises its error, and main() stops there: nothing
\* is listed, no document set is built, the record is left as it was.
C13_LayoutFirst ==
    (pc \notin {"idle", "check_folder_structure"}
        /\ (~main_folder_exists \/ ~input_folder_exists)) =>
        /\ pc = "raised"
        /\ result = "ValueError: folder does not exist"
        /\ trace = <<"check_folder_structure">>
        /\ record = recordAtCall
        /\ writes = 0
        /\ (calls = 1 => documents_path = <<>>)

\* the input folder alone is missing, a record is on disk
C13_Witness ==
    /\ pc = "raised"
    /\ main_folder_exists
    /\ ~input_folder_exists
    /\ result = "ValueError: folder does not exist"
    /\ recordAtCall.state = "written"

-----------------------------------------------------------------------------
(* load_files over a wider choice of names and docu_types, the input folder
   fixed *)

S_LOG == <<"L", "O", "G">>

F_a_txt == <<"a">> \o Dot(S_txt)
F_b_md == <<"b">> \o Dot(S_md)
F_c_pdf == <<"c">> \o Dot(S_pdf)

FilesWide ==
    Files \cup {F_c_pdf, <<"e">> \o Dot(S_log), <<"f">> \o Dot(S_LOG)}

DocuTypesWide == DocuTypes \cup {S_md, S_LOG}

ListingsWide ==
    {l \in UNION {[1..n -> FilesWide] : n \in 0..MaxWide} :
        \A i, j \in 1..Len(l) : i # j => l[i] # l[j]}

DiscoverInit ==
    /\ ChunkQuiet
    /\ LoaderQuiet
    /\ main_folder_exists = TRUE
    /\ input_folder_exists = TRUE
    /\ listing \in ListingsWide
    /\ hash_dir_exists = FALSE
    /\ record = NoFile
    /\ docu_type \in DocuTypesWide
    /\ inst = FALSE
    /\ documents_path = <<>>
    /\ calls = 0
    /\ pc = "idle"
    /\ caller = "none"
    /\ changed = "none"
    /\ result = "none"
    /\ trace = <<>>
    /\ recordAtCall = NoFile
    /\ writes = 0
    /\ sameListing = FALSE

DiscoverNext ==
    \/ Construct
    \/ CallMain
    \/ check_folder_structure
    \/ load_files
    \/ check_increment
    \/ main_if
    \/ save_open
    \/ save_dump
    \/ Finish

DiscoverSpec == DiscoverInit /\ [][DiscoverNext]_vars

\* the paths of the entries of the listing that satisfy Keep, in its order
PathsWhere(Keep(_)) ==
    LET sel == SelectSeq(listing, Keep)
    IN  [i \in 1..Len(sel) |-> path_join(InputFolder, sel[i])]

\* the lower-cased extension of the entry is in the list of the docu_type
InPolicy(name) == InSeq(lower(splitext1(name)), extensions(docu_type))

\* C11: after load_files the document set is exactly the entries of the
\* listing whose lower-cased extension is in the extension list of the
\* docu_type, in the order of the listing, none twice; ['a.txt', 'b.md',
\* 'c.pdf'] gives all three under 'mixed' and a.txt alone under 'txt'.
C11_Subsequence ==
    (LoadFilesDone /\ pc # "raised") =>
        /\ documents_path = PathsWhere(InPolicy)
        /\ \A i, j \in 1..Len(documents_path) :
              i # j => documents_path[i] # documents_path[j]
        /\ (listing = <<F_a_txt, F_b_md, F_c_pdf>> /\ docu_type = S_mixed =>
                documents_path = <<path_join(InputFolder, F_a_txt),
                                   path_join(InputFolder, F_b_md),
                                   path_join(InputFolder, F_c_pdf)>>)
        /\ (listing = <<F_a_txt, F_b_md, F_c_pdf>> /\ docu_type = S_txt =>
                documents_path = <<path_join(InputFolder, F_a_txt)>>)

\* the extension of the entry is '.' + docu_type, letter case aside
IsTagExtension(name) == lower(splitext1(name)) = lower(Dot(docu_type))

\* C16: for a docu_type X outside the table, load_files (on a new object)
\* accepts exactly the entries whose extension equals '.X' when letter case
\* is ignored, whatever the case of X and of the extension, in listing order.
C16_LiteralTag ==
    (LoadFilesDone /\ calls = 1 /\ docu_type \notin DOMAIN supported_extensions) =>
        documents_path = PathsWhere(IsTagExtension)

-----------------------------------------------------------------------------
(* DocumentLoader: __init__, load_document, chunk_document *)

S_TXT == <<"T", "X", "T">>

\* the file_path arguments of load_document
LoadPaths == {
    <<"a">> \o Dot(S_txt),
    <<"b">> \o Dot(S_md),
    <<"c">> \o Dot(S_pdf),
    <<"D">> \o Dot(S_TXT),
    <<"g">> \o Dot(S_csv),
    <<"h">> \o Dot(S_xlsx),
    <<"i">> \o Dot(S_xls),
    <<"j">> }

\* the text arguments of chunk_document
DocTexts == UNION {[1..n -> Chars] : n \in 0..MaxDocLen}

\* load_document, docling having failed, picking '.xls' but not '.xlsx'
fallback_loader_XlsOnly(file_extension) ==
    CASE file_extension = Dot(S_csv) -> "load_csv"
      [] file_extension = Dot(S_xls) -> "load_excel"
      [] file_extension \in {Dot(S_txt), Dot(S_md)} -> "load_text"
      [] OTHER -> "none"

\* load_document: the if/elif chain of the except branch
fallback_loader(file_extension) ==
    CASE file_extension = Dot(S_csv) -> "load_csv"
      [] file_extension \in {Dot(S_xlsx), Dot(S_xls)} -> "load_excel"
      [] file_extension \in {Dot(S_txt), Dot(S_md)} -> "load_text"
      [] OTHER -> "none"

\* load_document: the if/elif chain of the branch without docling
plain_loader(file_extension) ==
    CASE file_extension = Dot(S_csv) -> "load_csv"
      [] file_extension \in {Dot(S_xlsx), Dot(S_xls)} -> "load_excel"
      [] file_extension \in {Dot(S_txt), Dot(S_md)} -> "load_text"
      [] OTHER -> "none"

\* return result.document.text
ConvertedText == [kind |-> "text", by |-> "docling", cause |-> "none"]

\* the text a built-in loader returns, or the error it raises itself
LoaderOutcome(loader, outcome) ==
    [kind |-> IF outcome = "ok" THEN "text" ELSE "error", by |-> loader, cause |-> "none"]

\* raise ValueError(f"Failed to process file {file_path}: {str(e)}")
FailedToProcess == [kind |-> "error", by |-> "ValueError", cause |-> "conversion failure"]

\* raise ValueError(f"Cannot process file type {file_extension} without docling")
CannotProcess == [kind |-> "error", by |-> "ValueError", cause |-> "none"]

\* the section or paragraph texts the converter hands back
SemanticChunks(sem) ==
    CASE sem = "sections" -> << <<"s", "1">>, <<"s", "2">> >>
      [] sem = "paragraphs" -> << <<"p", "1">> >>
      [] OTHER -> <<>>

\* chunk_document returning whatever list the converter gave, empty or not
takes_semantic_Unchecked(docling, sem) == docling /\ sem \in {"sections", "paragraphs", "empty"}

\* chunk_document: docling in use, no exception, and sections or paragraphs
\* is a non-empty list
takes_semantic(docling, sem) == docling /\ sem \in {"sections", "paragraphs"}

LoaderInit ==
    /\ ChunkQuiet
    /\ PipeQuiet
    /\ LoaderQuiet

\* DocumentLoader(): the import of docling succeeds or raises ImportError
LoaderConstruct ==
    /\ lpc = "new"
    /\ \E imported \in BOOLEAN : use_docling' = imported
    /\ lpc' = "ready"
    /\ UNCHANGED <<op, loadVars, cdVars, chunkVars, pipeVars>>

\* load_document(file_path), the converter and the built-in loader each
\* working or raising
load_document ==
    /\ lpc = "ready"
    /\ \E file_path \in LoadPaths, convert \in {"ok", "raised"}, loading \in {"ok", "raised"} :
          LET file_extension == lower(splitext1(file_path))
          IN  /\ ld_path' = file_path
              /\ IF use_docling
                 THEN /\ ld_convert' = convert
                      /\ IF convert = "ok"
                         THEN /\ ld_loader' = "none"
                              /\ ld_result' = ConvertedText
                         ELSE /\ ld_loader' = fallback_loader(file_extension)
                              /\ ld_result' =
                                    IF fallback_loader(file_extension) # "none"
                                    THEN LoaderOutcome(fallback_loader(file_extension), loading)
                                    ELSE FailedToProcess
                 ELSE /\ ld_convert' = "none"
                      /\ ld_loader' = plain_loader(file_extension)
                      /\ ld_result' =
                            IF plain_loader(file_extension) # "none"
                            THEN LoaderOutcome(plain_loader(file_extension), loading)
                            ELSE CannotProcess
    /\ op' = "load_document"
    /\ lpc' = "returned"
    /\ UNCHANGED <<use_docling, cdVars, chunkVars, pipeVars>>

\* chunk_document(text, chunk_size, overlap) up to its return of the
\* converter's chunks, or up to its call of _simple_chunk_text
chunk_document ==
    /\ lpc = "ready"
    /\ \E txt \in DocTexts, size \in 1..MaxChunkSize, ov \in 0..MaxOverlap,
          semantic \in {"raised", "sections", "paragraphs", "empty"} :
          LET sem == IF use_docling THEN semantic ELSE "none"
          IN  /\ cd_text' = txt
              /\ cd_chunk_size' = size
              /\ cd_overlap' = ov
              /\ cd_sem' = sem
              /\ IF takes_semantic(use_docling, sem)
                 THEN /\ cd_returned' = TRUE
                      /\ cd_result' = SemanticChunks(sem)
                      /\ lpc' = "returned"
                      /\ UNCHANGED chunkVars
                 ELSE /\ cd_returned' = FALSE
                      /\ cd_result' = <<>>
                      /\ lpc' = "simple"
                      /\ text' = txt
                      /\ chunk_size' = size
                      /\ overlap' = ov
                      /\ cpc' = "call"
                      /\ UNCHANGED <<start, end, chunks, spans>>
    /\ op' = "chunk_document"
    /\ UNCHANGED <<use_docling, loadVars, pipeVars>>

\* chunk_document: return self._simple_chunk_text(text, chunk_size, overlap)
chunk_document_return ==
    /\ lpc = "simple"
    /\ cpc = "done"
    /\ cd_returned' = TRUE
    /\ cd_result' = chunks
    /\ lpc' = "returned"
    /\ UNCHANGED <<use_docling, op, loadVars, cd_text, cd_chunk_size, cd_overlap, cd_sem,
                   chunkVars, pipeVars>>

\* the caller has the value or the exception of the call; the call's
\* arguments and locals are gone and the loader can be called again
LoaderCallOver ==
    /\ lpc = "returned"
    /\ lpc' = "ready"
    /\ op' = "none"
    /\ ld_path' = <<>>
    /\ ld_convert' = "none"
    /\ ld_loader' = "none"
    /\ ld_result' = NoResult
    /\ cd_text' = <<>>
    /\ cd_chunk_size' = 1
    /\ cd_overlap' = 0
    /\ cd_sem' = "none"
    /\ cd_returned' = FALSE
    /\ cd_result' = <<>>
    /\ text' = <<>>
    /\ chunk_size' = 1
    /\ overlap' = 0
    /\ cpc' = "call"
    /\ start' = 0
    /\ end' = 0
    /\ chunks' = <<>>
    /\ spans' = <<>>
    /\ UNCHANGED <<use_docling, pipeVars>>

LoaderNext ==
    \/ LoaderConstruct
    \/ load_document
    \/ chunk_document
    \/ (lpc = "simple" /\ ChunkEnter)
    \/ (lpc = "simple" /\ ChunkEmit)
    \/ (lpc = "simple" /\ ChunkAdvance)
    \/ (lpc = "simple" /\ ChunkReturn)
    \/ chunk_document_return
    \/ LoaderCallOver

LoaderSpec == LoaderInit /\ [][LoaderNext]_vars

\* the built-in loader of each extension, as the documentation lists them
C14_BuiltIn == {
    <<Dot(S_csv), "load_csv">>,
    <<Dot(S_xlsx), "load_excel">>,
    <<Dot(S_xls), "load_excel">>,
    <<Dot(S_txt), "load_text">>,
    <<Dot(S_md), "load_text">> }

C14_LoadersOf(path) == {p[2] : p \in {q \in C14_BuiltIn : q[1] = lower(splitext1(path))}}

\* C14: load_document follows the fallback chain. The converter is invoked
\* exactly when docling is present, and its text is returned when it works.
\* When it raises or is absent, the built-in loader of the lower-cased
\* extension (.csv, .xlsx/.xls, .txt, .md) produces the outcome and no
\* conversion failure reaches the caller; for any other extension the call
\* fails with a ValueError that carries the conversion failure exactly when
\* one occurred.
C14_FallbackChain ==
    op = "load_document" =>
        /\ (ld_convert # "none") <=> use_docling
        /\ ld_convert = "ok" =>
              /\ ld_loader = "none"
              /\ ld_result = [kind |-> "text", by |-> "docling", cause |-> "none"]
        /\ (ld_convert # "ok" /\ C14_LoadersOf(ld_path) # {}) =>
              /\ ld_loader \in C14_LoadersOf(ld_path)
              /\ ld_result.by = ld_loader
              /\ ld_result.cause = "none"
        /\ (ld_convert # "ok" /\ C14_LoadersOf(ld_path) = {}) =>
              /\ ld_loader = "none"
              /\ ld_result.kind = "error"
              /\ ld_result.by = "ValueError"
              /\ ld_result.cause = (IF ld_convert = "raised" THEN "conversion failure" ELSE "none")

\* the converter raised on D.TXT and load_text returned the text
C14_Witness ==
    /\ op = "load_document"
    /\ use_docling
    /\ ld_convert = "raised"
    /\ ld_path = <<"D">> \o Dot(S_TXT)
    /\ ld_loader = "load_text"
    /\ ld_result.kind = "text"

\* the chunks of the boundary-aware chunker for txt, size and ov, window by
\* window, for at most fuel windows
RECURSIVE C15_Reference(_, _, _, _, _)
C15_Reference(txt, size, ov, s, fuel) ==
    IF s >= Len(txt) \/ fuel = 0 THEN <<>>
    ELSE LET e == WindowEnd(txt, s, size)
         IN  <<Slice(txt, s, e)>> \o C15_Reference(txt, size, ov, NextStart(s, e, ov), fuel - 1)

\* C15: chunk_document asks the converter exactly when docling is present and
\* returns the converter's chunks when it gives a non-empty list. In every
\* other case (docling absent, the converter raising, an empty result) it
\* calls the boundary-aware chunker with the same text, chunk_size and overlap
\* and returns exactly that call's result; no case ends in an error.
C15_FallbackEquivalence ==
    op = "chunk_document" =>
        /\ (cd_sem = "none") <=> ~use_docling
        /\ lpc \in {"simple", "returned"}
        /\ cd_returned <=> lpc = "returned"
        /\ cd_sem \in {"sections", "paragraphs"} =>
              /\ cd_returned
              /\ cd_result = SemanticChunks(cd_sem)
              /\ cd_result # <<>>
        /\ cd_sem \notin {"sections", "paragraphs"} =>
              /\ text = cd_text
              /\ chunk_size = cd_chunk_size
              /\ overlap = cd_overlap
              /\ cd_returned =>
                    /\ cpc = "done"
                    /\ cd_result = chunks
                    /\ cd_result =
                          C15_Reference(cd_text, cd_chunk_size, cd_overlap, 0, Len(cd_text) + 1)

\* the converter raised and the fallback returned two chunks
C15_Witness ==
    /\ op = "chunk_document"
    /\ use_docling
    /\ cd_sem = "raised"
    /\ cd_returned
    /\ Len(cd_result) = 2
    /\ cd_result = chunks

=============================================================================
